---- MODULE Spec2Model ----
(***************************************************************************)
(* meteor-up: the configuration / session resolver (MupAPI, mup-api.js),   *)
(* the validator of the servers section (validateServers) and the          *)
(* build-and-archive pipeline (buildApp, buildMeteorApp, archiveIt) as     *)
(* state machines.                                                         *)
(*                                                                         *)
(* JavaScript values are represented as follows.                           *)
(*   - a string field that may be missing: a string, Undefined if missing  *)
(*   - a plain object with optional keys: a function whose DOMAIN is the   *)
(*     set of keys that are present                                        *)
(*   - a plain object whose key order is observable (for..in, Object.keys):*)
(*     a sequence of [key, val] records in insertion order                 *)
(*   - a nullable reference: <<>> for null, <<v>> for the value v          *)
(*   - an entry of config.servers that is null: <<>> (no entry considered  *)
(*     is an object without keys)                                          *)
(***************************************************************************)
EXTENDS Integers, Sequences, FiniteSets, TLC

\* ------------------------------------------------------------------ bounds
MaxViews == 2
MaxReads == 3

\* ------------------------------------------------------------- JS helpers
Undefined == "<undefined>"
Null == <<>>
Ref(v) == <<v>>

\* if (s) for a string-or-undefined s
Truthy(s) == s # Undefined /\ s # ""

\* obj[k] for an object with optional keys, all of whose values are strings
Field(obj, k) == IF k \in DOMAIN obj THEN obj[k] ELSE Undefined

\* obj[k] = v on an object with optional keys
SetKey(obj, k, v) == [x \in (DOMAIN obj) \cup {k} |-> IF x = k THEN v ELSE obj[x]]

\* ordered objects
Keys(o) == [i \in 1..Len(o) |-> o[i].key]
KeySet(o) == {o[i].key : i \in 1..Len(o)}
Has(o, k) == k \in KeySet(o)
Get(o, k) == o[CHOOSE i \in 1..Len(o) : o[i].key = k].val
Put(o, k, v) ==
  IF Has(o, k)
  THEN [i \in 1..Len(o) |-> IF o[i].key = k THEN [key |-> k, val |-> v] ELSE o[i]]
  ELSE Append(o, [key |-> k, val |-> v])
Values(o) == [i \in 1..Len(o) |-> o[i].val]

\* ------------------------------------------------------------- variables
VARIABLES
  env,       \* what the process finds outside itself: SSH_AUTH_SOCK, the
             \* config file (loadable or not), the settings file's text, and
             \* the module lists its commands ask sessions for
  mupjs,     \* the object exported by the config file (what require returns)
  handles,   \* the MupAPI objects: handles[1] is the base resolver, the
             \* others were made by withSessions (Object.create)
  proc,      \* the process: running, or exited with a code and a diagnostic
  io,        \* what the process has done so far: file reads, parses,
             \* validations and the problems they printed, _loadSessions
             \* runs, session-broker calls
  build      \* the build pipeline (buildApp)

vars == <<env, mupjs, handles, proc, io, build>>

\* ------------------------------------------------------- the file system
\* fs.readFileSync(resolvePath(info.pem), 'utf8')
ReadablePem == "~/.ssh/id_rsa"
MissingPem == "/keys/gone.pem"
PemData(path) == "PRIVATE KEY of " \o path
readPem(path) ==
  IF path = ReadablePem THEN [ok |-> TRUE, data |-> PemData(path)]
  ELSE [ok |-> FALSE, data |-> Undefined]

\* fs.existsSync(sshAgent)
LiveSocket == "/tmp/ssh-agent.sock"
StaleSocket == "/tmp/stale.sock"
\* mutant: the socket path is not looked up on disk
existsSyncAlways(path) == TRUE
existsSync(path) == path = LiveSocket

\* the settings file: Missing, or its text
Missing == "<ENOENT>"
ObjectText == "{\"public\":{}}"
NullText == "null"
ZeroText == "0"
BrokenText == "{\"public\":"

\* parseJson(text): a value as a nullable reference, or a thrown error
parseJson(text) ==
  CASE text = ObjectText -> [ok |-> TRUE, value |-> Ref([t |-> "object", keys |-> <<"public">>])]
    [] text = NullText   -> [ok |-> TRUE, value |-> Null]
    [] text = ZeroText   -> [ok |-> TRUE, value |-> Ref([t |-> "number", n |-> 0])]
    [] OTHER             -> [ok |-> FALSE, value |-> Null]

\* if (v) for a value held as a nullable reference
JsTruthy(v) ==
  /\ v # Null
  /\ CASE v[1].t = "number" -> v[1].n # 0
       [] v[1].t = "string" -> v[1].s # ""
       [] OTHER -> TRUE

\* ------------------------------------------------------------ the process
Running(w) == w.proc.status = "running"

\* console.error(...); process.exit(code)
Exit(w, code, msg, server) ==
  [w EXCEPT !.proc = [status |-> "exited", code |-> code, msg |-> msg, server |-> server]]

\* ------------------------------------------------------- property lookup
\* this.<f> : the handle's own property, else its prototype's
RECURSIVE GetProp(_, _, _)
GetProp(hs, h, f) ==
  IF f \in DOMAIN hs[h].props THEN hs[h].props[f] ELSE GetProp(hs, hs[h].proto, f)

\* this.<f> = v : always an own property of the handle itself
SetProp(hs, h, f, v) == [hs EXCEPT ![h].props = SetKey(@, f, v)]

\* ------------------------------------------------------------ validation
\* A value that is not a string where a string is expected (pem: 42); like
\* Undefined it stands for itself and is no path.
NumberValue == "<number 42>"
IsString(v) == v \notin {Undefined, NumberValue}

\* s.indexOf(t): the first position (from 0) where t occurs in s, or -1
indexOf(s, t) ==
  LET at == {i \in 0..(Len(s) - Len(t)) : SubSeq(s, i + 1, i + Len(t)) = t}
  IN IF at = {} THEN -1 ELSE CHOOSE i \in at : \A j \in at : i <= j

\* one validation problem (a joi error detail, or the custom rule's)
Detail(message, path) == [message |-> message, path |-> path]

\* joi.string() on the value of key k of an entry; required or optional
JoiString(name, e, k, required) ==
  LET v == Field(e, k) IN
    IF v = Undefined
    THEN (IF required THEN <<Detail("is required", name \o "." \o k)>> ELSE <<>>)
    ELSE IF ~IsString(v) THEN <<Detail("must be a string", name \o "." \o k)>>
    ELSE IF v = "" THEN <<Detail("is not allowed to be empty", name \o "." \o k)>>
    ELSE <<>>

\* opts: joi.object().keys({ port: joi.number() })
JoiOpts(name, e) ==
  IF "opts" \notin DOMAIN e THEN <<>>
  ELSE IF DOMAIN e.opts \subseteq {"port"} THEN <<>>
  ELSE <<Detail("is not allowed", name \o ".opts")>>

\* the schema that .pattern(/.*/, {...}) applies to every entry
JoiEntry(name, e) ==
  IF e = Null THEN <<Detail("must be an object", name)>>
  ELSE JoiString(name, e, "host", TRUE) \o JoiString(name, e, "username", TRUE)
       \o JoiString(name, e, "pem", FALSE) \o JoiString(name, e, "password", FALSE)
       \o JoiOpts(name, e)

RECURSIVE JoiEntries(_, _)
JoiEntries(servers, i) ==
  IF i > Len(servers) THEN <<>>
  ELSE JoiEntry(servers[i].key, servers[i].val) \o JoiEntries(servers, i + 1)

\* joi.validate(servers, schema, VALIDATE_OPTIONS): result.error.details
JoiValidate(servers) ==
  IF Len(servers) = 0 THEN <<Detail("must have at least 1 children", "")>>
  ELSE JoiEntries(servers, 1)

\* combineErrorDetails(details, result)
combineErrorDetails(details, resultDetails) == details \o resultDetails

\* addLocation(details, location): every path gets the section's name in front
addLocation(details, location) ==
  [i \in 1..Len(details) |-> Detail(details[i].message, location \o "." \o details[i].path)]

PublicKeyMessage == "Needs to be a path to a private key. The file extension \".pub\" is used for public keys."

\* the test of the custom rule, for a pem that is a non-empty string
LooksLikePublicKey(pem) == indexOf(pem, ".pub") = Len(pem) - 4

\* the body of Object.keys(servers).forEach(...) for the i-th entry: the
\* details after it, or a TypeError (server is null: server.pem cannot be
\* read; server.pem is truthy and no string: it has no indexOf)
PemRule(r, servers, i) ==
  LET key == servers[i].key
      server == servers[i].val
  IN IF server = Null THEN [r EXCEPT !.threw = TRUE]
     ELSE LET pem == Field(server, "pem") IN
       IF ~Truthy(pem) THEN r
       ELSE IF ~IsString(pem) THEN [r EXCEPT !.threw = TRUE]
       ELSE IF LooksLikePublicKey(pem)
            THEN [r EXCEPT !.details = Append(@, Detail(PublicKeyMessage, key \o ".pem"))]
            ELSE r

RECURSIVE PemRules(_, _, _)
PemRules(r, servers, i) ==
  IF i > Len(servers) \/ r.threw THEN r
  ELSE PemRules(PemRule(r, servers, i), servers, i + 1)

\* validateServers(servers): the problems it returns, or threw
validateServers(servers) ==
  LET details == combineErrorDetails(<<>>, JoiValidate(servers))
      r == PemRules([threw |-> FALSE, details |-> details], servers, 1)
  IN IF r.threw THEN [threw |-> TRUE, problems |-> <<>>]
     ELSE [threw |-> FALSE, problems |-> addLocation(r.details, "servers")]

\* validateConfig(config) of ./validate/index: every section that has a
\* validator is given to it and the problems are concatenated (of the
\* validators only validateServers is modelled)
validate(cfg) ==
  IF "servers" \in DOMAIN cfg THEN validateServers(cfg.servers)
  ELSE [threw |-> FALSE, problems |-> <<>>]

\* an exception that nothing in MupAPI catches
Throw(w, msg) ==
  [w EXCEPT !.proc = [status |-> "crashed", code |-> 1, msg |-> msg, server |-> Undefined]]

\* ------------------------------------------------------------- MupAPI
\* The methods are operators on a world w = [handles, mupjs, proc, io]; an
\* action applies one method to the current world and commits the result.

\* new MupAPI(base, args, configPath, settingsPath, verbose)
NewMupAPI == [proto |-> 0, modules |-> <<>>, props |-> [config |-> Null, settings |-> Null, sessions |-> Null]]

\* MupAPI.validateConfig: run the validators over this.config and print the
\* problems; nothing is returned and nothing exits
validateConfig(w, h) ==
  LET r == validate(w.mupjs)
      w1 == [w EXCEPT !.io.validations = @ + 1]
  IN IF r.threw THEN Throw(w1, "TypeError")
     ELSE [w1 EXCEPT !.io.problems = r.problems]

\* MupAPI.getConfig (the config file is taken by what require does with it:
\* "ok", "missing" (MODULE_NOT_FOUND) or "broken"; the path arithmetic that
\* picks the file is left out)
getConfig(w, h) ==
  IF GetProp(w.handles, h, "config") # Null THEN w
  ELSE LET w1 == [w EXCEPT !.io.requires = @ + 1] IN
       IF env.configFile = "ok"
       THEN validateConfig([w1 EXCEPT !.handles = SetProp(@, h, "config", Ref("mup.js"))], h)
       ELSE Exit(w1, 1,
                 IF env.configFile = "missing"
                 THEN "\"mup.js\" file not found. Run \"mup init\" first."
                 ELSE "error loading mup.js",
                 Undefined)

\* if (!this.settings)
SettingsCached(v) == JsTruthy(v)

\* return this.settings (served: the handles a getSettings call has
\* returned to)
ReturnSettings(w, h) == [w EXCEPT !.io.served = @ \cup {h}]

\* MupAPI.getSettings
getSettings(w, h) ==
  IF SettingsCached(GetProp(w.handles, h, "settings")) THEN ReturnSettings(w, h)
  ELSE LET w1 == [w EXCEPT !.io.settingsReads = @ + 1] IN
       IF env.settingsFile = Missing
       THEN Exit(w1, 1, "Unable to load settings.json", Undefined)
       ELSE LET text == env.settingsFile
                w2 == [w1 EXCEPT !.handles = SetProp(@, h, "settings",
                                                    Ref([t |-> "string", s |-> text])),
                                 !.io.parses = @ + 1]
                parsed == parseJson(text)
            IN IF parsed.ok
               THEN ReturnSettings([w2 EXCEPT !.handles = SetProp(@, h, "settings", parsed.value)], h)
               ELSE Exit(w2, 1, "Error parsing settings file", Undefined)

\* config.servers, in for..in order; nothing to iterate when it is missing
Servers(cfg) == IF "servers" \in DOMAIN cfg THEN cfg.servers ELSE <<>>

\* mutant: the password is tried before the pem
CredentialPasswordFirst(info, sshAgent) ==
  IF Truthy(Field(info, "password")) THEN "password"
  ELSE IF Truthy(Field(info, "pem")) THEN "pem"
  ELSE IF Truthy(sshAgent) /\ existsSync(sshAgent) THEN "agent"
  ELSE "none"

\* the if / else-if chain of _loadSessions that selects the credential
Credential(info, sshAgent) ==
  IF Truthy(Field(info, "pem")) THEN "pem"
  ELSE IF Truthy(Field(info, "password")) THEN "password"
  ELSE IF Truthy(sshAgent) /\ existsSync(sshAgent) THEN "agent"
  ELSE "none"

\* one iteration of the loop of _loadSessions, for the i-th server entry
LoadOne(w, h, i) ==
  LET name == Servers(w.mupjs)[i].key
      info == Servers(w.mupjs)[i].val
      sshAgent == env.SSH_AUTH_SOCK
      auth0 == [username |-> Field(info, "username")]
      ssh0 == IF "opts" \in DOMAIN info THEN info.opts ELSE <<>>
      how == Credential(info, sshAgent)
      pem == readPem(info.pem)
      auth == CASE how = "pem" -> SetKey(auth0, "pem", pem.data)
                [] how = "password" -> SetKey(auth0, "password", info.password)
                [] OTHER -> auth0
      \* opts.ssh is info.opts itself when the entry has opts: the agent is
      \* written into the config's own object
      ssh == IF how = "agent" THEN SetKey(ssh0, "agent", sshAgent) ELSE ssh0
      cfg == IF how = "agent" /\ "opts" \in DOMAIN info
             THEN [w.mupjs EXCEPT !.servers[i].val.opts = ssh]
             ELSE w.mupjs
      session == [host |-> Field(info, "host"), auth |-> auth, opts |-> [ssh |-> ssh]]
  IN CASE how = "pem" /\ ~pem.ok -> Exit(w, 1, "Unable to load pem", name)
       [] how = "none" -> Exit(w, 1, "doesn't have password, ssh-agent or pem", name)
       [] OTHER ->
            [w EXCEPT !.mupjs = cfg,
                      !.io.broker = Append(@, name),
                      !.handles = SetProp(@, h, "sessions",
                                          Ref(Put(GetProp(w.handles, h, "sessions")[1],
                                                  name, session)))]

RECURSIVE LoadFrom(_, _, _)
LoadFrom(w, h, i) ==
  IF i > Len(Servers(w.mupjs)) \/ ~Running(w) THEN w
  ELSE LoadFrom(LoadOne(w, h, i), h, i + 1)

\* MupAPI._loadSessions
loadSessions(w, h) ==
  LET w0 == [w EXCEPT !.io.loads = @ + 1]
      w1 == getConfig(w0, h)
  IN IF ~Running(w1) THEN w1
     ELSE LoadFrom([w1 EXCEPT !.handles = SetProp(@, h, "sessions", Ref(<<>>))], h, 1)

\* mutant: an empty session map counts as not built
NeedsLoadWhenEmpty(sessions) == sessions = Null \/ sessions = Ref(<<>>)

\* if (!this.sessions)
NeedsLoad(sessions) == sessions = Null

\* this.config[moduleName].servers, in for..in order; nothing when the
\* section, or its servers, is missing
ModuleServers(cfg, moduleName) ==
  IF moduleName \in DOMAIN cfg /\ "servers" \in DOMAIN cfg[moduleName]
  THEN cfg[moduleName].servers
  ELSE <<>>

\* mutant: the picked sessions are collected in a list, not keyed by name
RECURSIVE PickNamesList(_, _, _, _)
PickNamesList(all, names, j, acc) ==
  IF j > Len(names) THEN acc
  ELSE PickNamesList(all, names, j + 1,
                     IF Has(all, names[j])
                     THEN Append(acc, [key |-> names[j], val |-> Get(all, names[j])])
                     ELSE acc)

\* the inner loop of _pickSessions
RECURSIVE PickNames(_, _, _, _)
PickNames(all, names, j, acc) ==
  IF j > Len(names) THEN acc
  ELSE PickNames(all, names, j + 1,
                 IF Has(all, names[j]) THEN Put(acc, names[j], Get(all, names[j])) ELSE acc)

\* modules.forEach(...) of _pickSessions
RECURSIVE PickModules(_, _, _, _, _)
PickModules(cfg, all, modules, i, acc) ==
  IF i > Len(modules) THEN acc
  ELSE PickModules(cfg, all, modules, i + 1,
                   PickNames(all, ModuleServers(cfg, modules[i]), 1, acc))

\* mutant: the names are looked up in the base resolver's map
pickSessionsFromBase(w, h, modules) ==
  LET w1 == IF NeedsLoad(GetProp(w.handles, h, "sessions")) THEN loadSessions(w, h) ELSE w
  IN [w |-> w1,
      sessions |-> IF Running(w1)
                   THEN PickModules(w1.mupjs, GetProp(w1.handles, 1, "sessions")[1],
                                    modules, 1, <<>>)
                   ELSE <<>>]

\* MupAPI._pickSessions: the world after it, and the object it returns
pickSessions(w, h, modules) ==
  LET w1 == IF NeedsLoad(GetProp(w.handles, h, "sessions")) THEN loadSessions(w, h) ELSE w
  IN [w |-> w1,
      sessions |-> IF Running(w1)
                   THEN PickModules(w1.mupjs, GetProp(w1.handles, h, "sessions")[1],
                                    modules, 1, <<>>)
                   ELSE <<>>]

\* mutant: the subset is also assigned to the resolver the view is made from
NewViewShared(hs, h, modules, picked) ==
  Append(SetProp(hs, h, "sessions", Ref(picked)),
         [proto |-> h, modules |-> modules, props |-> [sessions |-> Ref(picked)]])

\* Object.create(this), then api.sessions = picked. (modules is not a
\* property of the object: it records the argument the view was made with.)
NewView(hs, h, modules, picked) ==
  Append(hs, [proto |-> h, modules |-> modules, props |-> [sessions |-> Ref(picked)]])

\* MupAPI.withSessions
withSessions(w, h, modules) ==
  LET r == pickSessions(w, h, modules)
  IN IF Running(r.w)
     THEN [r.w EXCEPT !.handles = NewView(@, h, modules, r.sessions)]
     ELSE r.w

\* MupAPI.getSessions: the world after it, and the list it returns
getSessions(w, h, modules) ==
  LET r == pickSessions(w, h, modules)
  IN [w |-> r.w, list |-> Values(r.sessions)]

\* ---------------------------------------------------------------- inputs
\* one entry of config.servers: host and username, and whichever of pem,
\* password and opts the entry sets (Undefined, <<>>: the key is missing)
Entry(host, pem, password, opts) ==
  LET d == {"host", "username"}
           \cup (IF pem # Undefined THEN {"pem"} ELSE {})
           \cup (IF password # Undefined THEN {"password"} ELSE {})
           \cup (IF opts # <<>> THEN {"opts"} ELSE {})
  IN [k \in d |-> CASE k = "host" -> host
                    [] k = "username" -> "root"
                    [] k = "pem" -> pem
                    [] k = "password" -> password
                    [] OTHER -> opts[1]]

Port22 == [port |-> 22]
HostOf(name) == name \o ".example.com"
Named(name, entry) == [key |-> name, val |-> entry]

\* the module lists a command may ask sessions for
ModuleLists ==
  {<<>>, <<"meteor">>, <<"mongo">>, <<"proxy">>, <<"meteor", "mongo">>, <<"mongo", "meteor">>}

\* three servers, meteor on the first two, mongo on the third
ConfigABC ==
  [servers |-> << Named("one", Entry(HostOf("one"), Undefined, "secret", <<>>)),
                  Named("two", Entry(HostOf("two"), ReadablePem, "secret", <<Port22>>)),
                  Named("three", Entry(HostOf("three"), Undefined, Undefined, <<Port22>>)) >>,
   meteor |-> [servers |-> <<"one", "two">>],
   mongo |-> [servers |-> <<"three">>]]

\* two servers, both modules on overlapping servers, one dangling reference
ConfigOverlap ==
  [servers |-> << Named("one", Entry(HostOf("one"), ReadablePem, Undefined, <<>>)),
                  Named("two", Entry(HostOf("two"), Undefined, "secret", <<>>)) >>,
   meteor |-> [servers |-> <<"one", "two", "ghost">>],
   mongo |-> [servers |-> <<"two">>]]

\* no servers section at all, and a module section without servers
ConfigBare == [meteor |-> [path |-> "."]]

\* every way to fill in pem, password and opts of an entry
Entries(name) ==
  {Entry(HostOf(name), pem, password, opts) :
     pem \in {Undefined, "", ReadablePem, MissingPem},
     password \in {Undefined, "secret"},
     opts \in {<<>>, <<Port22>>}}

\* one or two servers with any credentials, one module on both
CredentialConfigs ==
  {[servers |-> <<Named("one", e)>>, meteor |-> [servers |-> <<"one", "two">>]] :
     e \in Entries("one")}
  \cup
  {[servers |-> <<Named("one", e1), Named("two", e2)>>,
    meteor |-> [servers |-> <<"one", "two">>]] :
     e1 \in Entries("one"), e2 \in Entries("two")}

\* The runs considered. Each fixes the config file, the environment,
\* the settings file and the module lists its commands ask for.
\*   scoping: every module list, over configs whose credentials resolve
\*   credentials: every credential combination, in every agent environment
\*   loaders: every kind of config file and settings file
Scenarios ==
  {[config |-> c,
    env |-> [SSH_AUTH_SOCK |-> LiveSocket, configFile |-> "ok", settingsFile |-> s,
             lists |-> ModuleLists]] :
     c \in {ConfigABC, ConfigOverlap, ConfigBare}, s \in {Missing}}
  \cup
  {[config |-> c,
    env |-> [SSH_AUTH_SOCK |-> a, configFile |-> "ok", settingsFile |-> BrokenText,
             lists |-> {<<"meteor">>}]] :
     c \in CredentialConfigs, a \in {Undefined, LiveSocket, StaleSocket}}
  \cup
  {[config |-> ConfigOverlap,
    env |-> [SSH_AUTH_SOCK |-> Undefined, configFile |-> f, settingsFile |-> s,
             lists |-> {<<>>, <<"mongo">>}]] :
     f \in {"ok", "missing", "broken"},
     s \in {Missing, ObjectText, NullText, ZeroText, BrokenText}}

\* --------------------------------------------------------------- actions
World == [handles |-> handles, mupjs |-> mupjs, proc |-> proc, io |-> io]

Commit(w) ==
  /\ handles' = w.handles
  /\ mupjs' = w.mupjs
  /\ proc' = w.proc
  /\ io' = w.io

GetConfig(h) ==
  /\ proc.status = "running"
  /\ Commit(getConfig(World, h))
  /\ UNCHANGED <<env, build>>

\* (a call that would read the file once more is left out once the file has
\* been read MaxReads times)
GetSettings(h) ==
  /\ proc.status = "running"
  /\ SettingsCached(GetProp(handles, h, "settings")) \/ io.settingsReads < MaxReads
  /\ Commit(getSettings(World, h))
  /\ UNCHANGED <<env, build>>

GetSessions(h, modules) ==
  /\ proc.status = "running"
  /\ Commit(getSessions(World, h, modules).w)
  /\ UNCHANGED <<env, build>>

WithSessions(h, modules) ==
  /\ proc.status = "running"
  /\ Len(handles) < 1 + MaxViews
  /\ Commit(withSessions(World, h, modules))
  /\ UNCHANGED <<env, build>>

Init ==
  /\ \E sc \in Scenarios :
       /\ env = sc.env
       /\ mupjs = sc.config
  /\ handles = <<NewMupAPI>>
  /\ proc = [status |-> "running", code |-> 0, msg |-> "", server |-> Undefined]
  /\ io = [requires |-> 0, validations |-> 0, settingsReads |-> 0, parses |-> 0,
           loads |-> 0, broker |-> <<>>, served |-> {}, problems |-> <<>>]
  /\ build = [pc |-> "unused"]

Next ==
  \/ \E h \in 1..Len(handles) : GetConfig(h)
  \/ \E h \in 1..Len(handles) : GetSettings(h)
  \/ \E h \in 1..Len(handles), modules \in env.lists : GetSessions(h, modules)
  \/ \E h \in 1..Len(handles), modules \in env.lists : WithSessions(h, modules)

Spec == Init /\ [][Next]_vars

\* ------------------------------------------------ configs to be validated
\* pem values: missing, empty, a name of three characters, a private key, a
\* public key, a public key below a directory named *.pub, and a number
PublicKey == "~/.ssh/id_rsa.pub"
NestedPublicKey == "/home/me.pub/id_rsa.pub"
PemInputs == {Undefined, "", "key", ReadablePem, PublicKey, NestedPublicKey, NumberValue}

\* delete obj[k]
Without(obj, k) == [x \in (DOMAIN obj) \ {k} |-> obj[x]]

\* the entries a servers section may hold under a name: objects with and
\* without host, with any pem, with and without password; and null
ValidationEntries(name) ==
  {Entry(HostOf(name), pem, password, <<>>) :
     pem \in PemInputs, password \in {Undefined, "secret"}}
  \cup
  {Without(Entry(HostOf(name), pem, password, <<>>), "host") :
     pem \in PemInputs, password \in {Undefined, "secret"}}
  \cup {Null}

\* what stands beside the entry looked at: a valid entry, a public key, an
\* entry without host, null
Neighbours(name) ==
  {Entry(HostOf(name), ReadablePem, Undefined, <<>>),
   Entry(HostOf(name), PublicKey, Undefined, <<>>),
   Without(Entry(HostOf(name), Undefined, "secret", <<>>), "host"),
   Null}

\* servers sections with no, one and two entries
ValidationConfigs ==
  {[servers |-> <<>>, meteor |-> [servers |-> <<"one", "two">>]]}
  \cup
  {[servers |-> <<Named("one", e)>>, meteor |-> [servers |-> <<"one", "two">>]] :
     e \in ValidationEntries("one")}
  \cup
  {[servers |-> <<Named("one", e1), Named("two", e2)>>,
    meteor |-> [servers |-> <<"one", "two">>]] :
     e1 \in Neighbours("one"),
     e2 \in {e \in ValidationEntries("two") : e = Null \/ "host" \in DOMAIN e}}

\* a resolver over a config that may have validation problems
InitValidate ==
  /\ mupjs \in ValidationConfigs
  /\ \E a \in {Undefined, LiveSocket} :
       env = [SSH_AUTH_SOCK |-> a, configFile |-> "ok", settingsFile |-> ObjectText,
              lists |-> {<<"meteor">>}]
  /\ handles = <<NewMupAPI>>
  /\ proc = [status |-> "running", code |-> 0, msg |-> "", server |-> Undefined]
  /\ io = [requires |-> 0, validations |-> 0, settingsReads |-> 0, parses |-> 0,
           loads |-> 0, broker |-> <<>>, served |-> {}, problems |-> <<>>]
  /\ build = [pc |-> "unused"]

SpecValidate == InitValidate /\ [][Next]_vars

\* ------------------------------------------------------ the build pipeline
\* build = [pc, app, options, platform, comspec, verbose,   the inputs
\*          spawned,      what spawn(executable, args, options) was given
\*          child,        the subprocess: "none", "running", "closed"
\*          childErrors,  'error' events of the subprocess so far (logged)
\*          closeCode,    the code of its close event, once it has closed
\*          promise,      "none", "pending", "resolved", "rejected"
\*          reason,       what the promise was rejected with
\*          archives,     how many times archiveIt was started
\*          archive,      what the archiver was asked to do
\*          onceCalled,   the state of _.once(cb) in archiveIt
\*          cbCalls,      how many times buildApp's callback ran
\*          events]       the archive's events so far, in order

AppPath == "/home/user/app"
BuildLocation == "/tmp/build"
ArchiveError == "archive error"

\* JSON.stringify of a flat object held as an ordered list of [key, val]
RECURSIVE Members(_, _)
Members(o, i) ==
  IF i > Len(o) THEN ""
  ELSE (IF i > 1 THEN "," ELSE "") \o "\"" \o o[i].key \o "\":\"" \o o[i].val \o "\""
       \o Members(o, i + 1)
stringify(o) == "{" \o Members(o, 1) \o "}"

\* /^win/.test(process.platform)
isWin(platform) == platform \in {"win32"}

\* mutant: the settings file is passed whenever the build is not server-only
BuildArgsPathAlways(appPath, o) ==
  <<"build", "--directory", o.buildLocation, "--architecture", "os.linux.x86_64">>
  \o (IF o.debug THEN <<"--debug">> ELSE <<>>)
  \o (IF o.mobileSettings # Null
      THEN <<"--mobile-settings", stringify(o.mobileSettings[1])>> ELSE <<>>)
  \o (IF o.serverOnly THEN <<"--server-only">>
      ELSE <<"--mobile-settings", appPath \o "/settings.json">>)
  \o (IF Truthy(o.server) THEN <<"--server", o.server>> ELSE <<>>)
  \o (IF o.allowIncompatibleUpdate THEN <<"--allow-incompatible-update">> ELSE <<>>)

\* the argument list buildMeteorApp constructs, before the Windows swap
BuildArgs(appPath, o) ==
  <<"build", "--directory", o.buildLocation, "--architecture", "os.linux.x86_64">>
  \o (IF o.debug THEN <<"--debug">> ELSE <<>>)
  \o (IF o.mobileSettings # Null
      THEN <<"--mobile-settings", stringify(o.mobileSettings[1])>> ELSE <<>>)
  \o (IF o.serverOnly THEN <<"--server-only">>
      ELSE IF o.mobileSettings = Null
           THEN <<"--mobile-settings", appPath \o "/settings.json">> ELSE <<>>)
  \o (IF Truthy(o.server) THEN <<"--server", o.server>> ELSE <<>>)
  \o (IF o.allowIncompatibleUpdate THEN <<"--allow-incompatible-update">> ELSE <<>>)

\* what buildMeteorApp hands to spawn
SpawnCall(appPath, o, verbose, platform, comspec) ==
  LET executable == IF Truthy(o.executable) THEN o.executable ELSE "meteor"
      args == BuildArgs(appPath, o)
  IN [executable |-> IF isWin(platform)
                     THEN (IF Truthy(comspec) THEN comspec ELSE "cmd.exe")
                     ELSE executable,
      args |-> IF isWin(platform) THEN <<"/c", "meteor">> \o args ELSE args,
      cwd |-> appPath,
      headless |-> TRUE,
      stdio |-> IF verbose THEN "inherit" ELSE "pipe"]

\* mutant: the close handler tests !code
BuildSucceededFalsy(code) == code = Ref(0) \/ code = Null

\* code === 0 in the close handler of buildApp
BuildSucceeded(code) == code = Ref(0)

\* resolve() / reject(err) on a promise: only a pending promise changes
Settle(b, err) ==
  IF b.promise # "pending" THEN b
  ELSE IF err # Null THEN [b EXCEPT !.promise = "rejected", !.reason = err]
       ELSE [b EXCEPT !.promise = "resolved"]

\* the callback buildApp passes to archiveIt
BuildCallback(b, err) == Settle([b EXCEPT !.cbCalls = @ + 1], err)

\* mutant: the callback is not wrapped in _.once
CallEveryTime(b, err) == BuildCallback([b EXCEPT !.onceCalled = TRUE], err)

\* callback = _.once(cb): the first call runs cb, the later ones do nothing
CallOnce(b, err) ==
  IF b.onceCalled THEN b ELSE BuildCallback([b EXCEPT !.onceCalled = TRUE], err)

\* archiveIt(buildLocation, cb), up to finalize()
archiveIt(b, buildLocation) ==
  [b EXCEPT !.pc = "archiving",
            !.archives = @ + 1,
            !.onceCalled = FALSE,
            !.archive = [bundlePath |-> buildLocation \o "/bundle.tar.gz",
                         sourceDir |-> buildLocation \o "/bundle",
                         root |-> "bundle", format |-> "tar", gzip |-> TRUE]]

BuildOptions ==
  [buildLocation : {BuildLocation},
   executable : {Undefined, "/opt/meteor/meteor"},
   debug : BOOLEAN,
   mobileSettings : {Null, Ref(<<>>), Ref(<<[key |-> "public", val |-> "x"]>>),
                     Ref(<<[key |-> "id", val |-> "a1"], [key |-> "public", val |-> "x"]>>)},
   serverOnly : BOOLEAN,
   server : {Undefined, "https://app.example.com"},
   allowIncompatibleUpdate : BOOLEAN]

DefaultOptions ==
  [buildLocation |-> BuildLocation, executable |-> Undefined, debug |-> FALSE,
   mobileSettings |-> Null, serverOnly |-> FALSE, server |-> Undefined,
   allowIncompatibleUpdate |-> FALSE]

Hosts ==
  {[platform |-> "linux", comspec |-> Undefined],
   [platform |-> "darwin", comspec |-> Undefined],
   [platform |-> "win32", comspec |-> Undefined],
   [platform |-> "win32", comspec |-> "C:\\Windows\\system32\\cmd.exe"]}

\* the app directory: a Meteor app, missing, unreadable, or not a Meteor app
AppKinds == {"ok", "ENOENT", "EACCES", "notMeteor"}

NewBuild(app, o, host, verbose) ==
  [pc |-> "idle", app |-> app, options |-> o, platform |-> host.platform,
   comspec |-> host.comspec, verbose |-> verbose,
   spawned |-> Null, child |-> "none", childErrors |-> 0, closeCode |-> Null,
   promise |-> "none", reason |-> Null, archives |-> 0,
   archive |-> Null, onceCalled |-> FALSE, cbCalls |-> 0, events |-> <<>>]

\* buildApp(appPath, buildOptions, verbose): the checks, then the promise's
\* executor, which runs buildMeteorApp up to its two meteor.on(...) calls
BuildApp ==
  /\ proc.status = "running"
  /\ build.pc = "idle"
  /\ IF build.app \in {"ENOENT", "EACCES"}
     THEN /\ proc' = [status |-> "exited", code |-> 1, server |-> Undefined,
                      msg |-> IF build.app = "ENOENT" THEN "does not exist" ELSE "stat error"]
          /\ build' = [build EXCEPT !.pc = "done"]
     ELSE IF build.app = "notMeteor"
     THEN /\ proc' = [status |-> "exited", code |-> 1, server |-> Undefined,
                      msg |-> "is not a meteor app"]
          /\ build' = [build EXCEPT !.pc = "done"]
     ELSE /\ proc' = proc
          /\ build' = [build EXCEPT
                         !.pc = "building",
                         !.promise = "pending",
                         !.child = "running",
                         !.spawned = Ref(SpawnCall(AppPath, build.options, build.verbose,
                                                   build.platform, build.comspec))]
  /\ UNCHANGED <<env, mupjs, handles, io>>

\* mutant: the 'error' handler rejects the promise
MeteorErrorRejects ==
  /\ proc.status = "running"
  /\ build.child = "running"
  /\ build.childErrors = 0
  /\ build' = Settle([build EXCEPT !.childErrors = @ + 1], Ref("spawn error"))
  /\ UNCHANGED <<env, mupjs, handles, proc, io>>

\* meteor.on('error', ...): the handler only logs
MeteorError ==
  /\ proc.status = "running"
  /\ build.child = "running"
  /\ build.childErrors = 0
  /\ build' = [build EXCEPT !.childErrors = @ + 1]
  /\ UNCHANGED <<env, mupjs, handles, proc, io>>

\* the codes a close event may carry: 0, a failure, a failed spawn's errno,
\* null when a signal ended the subprocess
CloseCodes == {Ref(0), Ref(1), Ref(-2), Null}

\* mutant: a failed build is logged and the process goes on
MeteorCloseLogsFailure(code) ==
  /\ proc.status = "running"
  /\ build.child = "running"
  /\ LET b == [build EXCEPT !.child = "closed", !.closeCode = code] IN
       IF BuildSucceeded(code)
       THEN build' = archiveIt(b, b.options.buildLocation)
       ELSE build' = [b EXCEPT !.pc = "done"]
  /\ UNCHANGED <<env, mupjs, handles, proc, io>>

\* meteor.on('close', callback): the function buildApp passed
MeteorClose(code) ==
  /\ proc.status = "running"
  /\ build.child = "running"
  /\ LET b == [build EXCEPT !.child = "closed", !.closeCode = code] IN
       IF BuildSucceeded(code)
       THEN /\ build' = archiveIt(b, b.options.buildLocation)
            /\ proc' = proc
       ELSE /\ build' = [b EXCEPT !.pc = "done"]
            /\ proc' = [status |-> "exited", code |-> 1, server |-> Undefined,
                        msg |-> "=> Build Error. Check the logs printed above."]
  /\ UNCHANGED <<env, mupjs, handles, io>>

\* archive.once('error', ...): the encoder's error event
EncoderError ==
  /\ proc.status = "running"
  /\ build.pc = "archiving"
  /\ "error" \notin {build.events[i] : i \in 1..Len(build.events)}
  /\ build' = CallOnce([build EXCEPT !.events = Append(@, "error")], Ref(ArchiveError))
  /\ UNCHANGED <<env, mupjs, handles, proc, io>>

\* output.once('close', callback): the destination stream's close event
OutputClose ==
  /\ proc.status = "running"
  /\ build.pc = "archiving"
  /\ "close" \notin {build.events[i] : i \in 1..Len(build.events)}
  /\ build' = CallOnce([build EXCEPT !.events = Append(@, "close")], Null)
  /\ UNCHANGED <<env, mupjs, handles, proc, io>>

\* the destination stream's error event: archiveIt registers no listener for
\* it, so the event is thrown as an uncaught exception and ends the process
OutputError ==
  /\ proc.status = "running"
  /\ build.pc = "archiving"
  /\ "close" \notin {build.events[i] : i \in 1..Len(build.events)}
  /\ build' = [build EXCEPT !.events = Append(@, "outputError")]
  /\ proc' = [status |-> "crashed", code |-> 1, server |-> Undefined,
              msg |-> "Unhandled 'error' event"]
  /\ UNCHANGED <<env, mupjs, handles, io>>

BuildRuns ==
  {NewBuild("ok", o, host, verbose) : o \in BuildOptions, host \in Hosts, verbose \in BOOLEAN}
  \cup
  {NewBuild(app, DefaultOptions, host, FALSE) : app \in AppKinds, host \in Hosts}

InitBuild ==
  /\ env = [SSH_AUTH_SOCK |-> Undefined, configFile |-> "ok", settingsFile |-> ObjectText,
            lists |-> {}]
  /\ mupjs = ConfigBare
  /\ handles = <<NewMupAPI>>
  /\ proc = [status |-> "running", code |-> 0, msg |-> "", server |-> Undefined]
  /\ io = [requires |-> 0, validations |-> 0, settingsReads |-> 0, parses |-> 0,
           loads |-> 0, broker |-> <<>>, served |-> {}, problems |-> <<>>]
  /\ build \in BuildRuns

NextBuild ==
  \/ BuildApp
  \/ MeteorError
  \/ \E code \in CloseCodes : MeteorClose(code)
  \/ EncoderError
  \/ OutputClose
  \/ OutputError

SpecBuild == InitBuild /\ [][NextBuild]_vars

\* Event delivery is fair: a spawned subprocess emits its close event (after
\* a failed spawn too), and a started archive comes to one of its events.
SpecBuildFair ==
  /\ SpecBuild
  /\ WF_vars(\E code \in CloseCodes : MeteorClose(code))
  /\ WF_vars(EncoderError \/ OutputClose \/ OutputError)

\* ================================================================ claims
\* the base resolver's session map (Loaded: its build has begun), and the
\* entries of config.servers
Base == handles[1]
Loaded == Base.props.sessions # Null
Full == Base.props.sessions[1]
ServerIdx == 1..Len(Servers(mupjs))
NameAt(i) == Servers(mupjs)[i].key
InfoAt(i) == Servers(mupjs)[i].val
Views == 2..Len(handles)
SessionsOf(h) == handles[h].props.sessions[1]
Range(seq) == {seq[i] : i \in 1..Len(seq)}

\* every session the process holds under the name of the i-th entry
SessionsNamed(i) ==
  {Get(handles[h].props.sessions[1], NameAt(i)) :
     h \in {x \in 1..Len(handles) :
              /\ handles[x].props.sessions # Null
              /\ Has(handles[x].props.sessions[1], NameAt(i))}}

BothSet(i) == Truthy(Field(InfoAt(i), "pem")) /\ Truthy(Field(InfoAt(i), "password"))

\* C1: a server entry with both pem and password set (non-empty) resolves to a
\* session that carries the pem file's contents and no password; when its
\* pem file cannot be read, building the session map ends the process with
\* exit code 1 and leaves no session for the entry (no fallback).
C1_PemBeforePassword ==
  \A i \in ServerIdx :
    BothSet(i) =>
      /\ \A s \in SessionsNamed(i) :
           /\ "pem" \in DOMAIN s.auth
           /\ s.auth.pem = PemData(InfoAt(i).pem)
           /\ "password" \notin DOMAIN s.auth
           /\ "agent" \notin DOMAIN s.opts.ssh
      /\ (Loaded /\ ~readPem(InfoAt(i).pem).ok) =>
           /\ proc.status = "exited"
           /\ proc.code = 1
           /\ SessionsNamed(i) = {}
      /\ (Loaded /\ proc.status = "running") => SessionsNamed(i) # {}

C1_Witness ==
  /\ Len(Servers(mupjs)) = 2
  /\ BothSet(2)
  /\ Loaded
  /\ Has(Full, NameAt(2))
  /\ Get(Full, NameAt(2)).auth.pem = PemData(ReadablePem)

\* the names a request for the module list M stands for: referenced by the
\* servers list of a configured module of M, and present in the full map
Expected(M) ==
  {n \in KeySet(Full) :
     \E i \in 1..Len(M) :
       /\ M[i] \in DOMAIN mupjs
       /\ "servers" \in DOMAIN mupjs[M[i]]
       /\ n \in Range(mupjs[M[i]].servers)}

\* C2: on the base resolver, the sessions picked for a module list M are
\* exactly the sessions of the full map whose name some configured module of
\* M lists, each once; unconfigured modules contribute nothing.
C2_ModuleScoping ==
  (Loaded /\ proc.status = "running") =>
    /\ \A v \in Views :
         handles[v].proto = 1 =>
           /\ KeySet(SessionsOf(v)) = Expected(handles[v].modules)
           /\ Len(SessionsOf(v)) = Cardinality(Expected(handles[v].modules))
           /\ \A n \in KeySet(SessionsOf(v)) : Get(SessionsOf(v), n) = Get(Full, n)
    /\ \A M \in env.lists :
         LET list == getSessions(World, 1, M).list IN
           /\ Range(list) = {Get(Full, n) : n \in Expected(M)}
           /\ Len(list) = Cardinality(Expected(M))

C2_Witness ==
  /\ Loaded
  /\ Keys(Full) = <<"one", "two", "three">>
  /\ Len(handles) = 3
  /\ handles[2].proto = 1
  /\ handles[2].modules = <<"mongo", "meteor">>
  /\ Keys(SessionsOf(2)) = <<"three", "one", "two">>
  /\ handles[3].proto = 1
  /\ handles[3].modules = <<"proxy">>
  /\ SessionsOf(3) = <<>>

\* C3: once the base resolver's session map is built no call changes it, no
\* call changes the subset an existing scoped view holds, and what
\* getSessions(M) returns on the base is the same before and after the call.
C3_ViewsLeaveBaseAlone ==
  [][ /\ Len(handles') >= Len(handles)
      /\ \A h \in 1..Len(handles) :
           handles[h].props.sessions # Null =>
             handles'[h].props.sessions = handles[h].props.sessions
      /\ (Loaded /\ proc'.status = "running") =>
           \A M \in env.lists :
             getSessions(World', 1, M).list = getSessions(World, 1, M).list
    ]_vars

C3_Witness ==
  /\ Loaded
  /\ Len(handles) = 3
  /\ handles[2].proto = 1
  /\ handles[3].proto = 1
  /\ KeySet(SessionsOf(2)) = {"one", "two"}
  /\ KeySet(SessionsOf(3)) = {"three"}
  /\ KeySet(Full) = {"one", "two", "three"}

\* how many times the session broker was called for a name
BrokerCalls(name) == Cardinality({k \in 1..Len(io.broker) : io.broker[k] = name})

\* C4: whatever is called on the base resolver and on views of it (and on
\* views of views), _loadSessions runs at most once and the session broker
\* is called at most once for each name of config.servers, and for no other.
C4_BuiltOnce ==
  /\ io.loads <= 1
  /\ \A k \in 1..Len(io.broker) :
       /\ BrokerCalls(io.broker[k]) = 1
       /\ io.broker[k] \in {NameAt(i) : i \in ServerIdx}

C4_Witness ==
  /\ io.loads = 1
  /\ Len(io.broker) = 3
  /\ Len(handles) = 3
  /\ handles[2].proto = 1
  /\ handles[3].proto = 2
  /\ SessionsOf(3) = <<>>

\* an entry without pem, password and usable agent socket
NoCredential(i) ==
  /\ ~Truthy(Field(InfoAt(i), "pem"))
  /\ ~Truthy(Field(InfoAt(i), "password"))
  /\ ~(Truthy(env.SSH_AUTH_SOCK) /\ env.SSH_AUTH_SOCK = LiveSocket)

\* an entry whose pem is set and cannot be read
UnreadablePem(i) ==
  /\ Truthy(Field(InfoAt(i), "pem"))
  /\ InfoAt(i).pem # ReadablePem

\* the first entry of config.servers, in order, that cannot get a session
FirstBad == CHOOSE i \in ServerIdx :
              /\ NoCredential(i) \/ UnreadablePem(i)
              /\ \A j \in 1..(i - 1) : ~(NoCredential(j) \/ UnreadablePem(j))

\* the agent socket is in a session only when SSH_AUTH_SOCK is set and exists
AgentOnlyWhenLive ==
  \A h \in 1..Len(handles) :
    handles[h].props.sessions # Null =>
      \A k \in 1..Len(SessionsOf(h)) :
        "agent" \in DOMAIN SessionsOf(h)[k].val.opts.ssh =>
          /\ env.SSH_AUTH_SOCK = LiveSocket
          /\ SessionsOf(h)[k].val.opts.ssh.agent = LiveSocket

\* C5 as stated: when the session map is built and an entry has no
\* credential, the process exits nonzero naming that entry, with no session
\* for it and no view returned; the agent is used only when set and on disk.
C5_AsStated ==
  /\ AgentOnlyWhenLive
  /\ \A i \in ServerIdx :
       (Loaded /\ NoCredential(i)) =>
         /\ proc.status = "exited"
         /\ proc.code # 0
         /\ proc.server = NameAt(i)
         /\ SessionsNamed(i) = {}
         /\ Len(handles) = 1

\* C5 (amended): as stated, except that the diagnostic names the first entry
\* in config order that has no credential or an unreadable pem, which is the
\* entry itself only when no earlier entry fails.
C5_MissingCredentialFatal ==
  /\ AgentOnlyWhenLive
  /\ \A i \in ServerIdx :
       (Loaded /\ NoCredential(i)) =>
         /\ proc.status = "exited"
         /\ proc.code = 1
         /\ proc.server = NameAt(FirstBad)
         /\ (FirstBad = i => proc.msg = "doesn't have password, ssh-agent or pem")
         /\ SessionsNamed(i) = {}
         /\ Len(handles) = 1

C5_Witness ==
  /\ io.loads = 1
  /\ Len(Servers(mupjs)) = 2
  /\ env.SSH_AUTH_SOCK = StaleSocket
  /\ ~NoCredential(1)
  /\ NoCredential(2)
  /\ proc.status = "exited"
  /\ proc.server = "two"
  /\ Has(Full, "one")

\* C6 as stated: once getConfig (getSettings) has returned on a handle, every
\* later call on that handle returns the same value and reads and parses no
\* file again.
C6_AsStated ==
  [][ \A h \in 1..Len(handles) :
        /\ (GetProp(handles, h, "config") # Null /\ GetConfig(h)) =>
             /\ io'.requires = io.requires
             /\ GetProp(handles', h, "config") = GetProp(handles, h, "config")
        /\ (h \in io.served /\ GetSettings(h)) =>
             /\ io'.settingsReads = io.settingsReads
             /\ io'.parses = io.parses
             /\ GetProp(handles', h, "settings") = GetProp(handles, h, "settings")
    ]_vars

\* C7 as stated: over the base resolver and its scoped views the config file
\* and the settings file are each read at most once per process (taken here
\* for a settings file that holds an object).
C7_AsStated ==
  /\ io.requires <= 1
  /\ env.settingsFile = ObjectText => io.settingsReads <= 1

\* C8: the archiver is started exactly when the build subprocess has closed
\* with exit code 0, and at most once; a close with any other code (null
\* included) ends the process with the archiver never started and the
\* promise still pending.
C8_ArchiveAfterCleanClose ==
  /\ build.archives <= 1
  /\ build.archives = 1 <=> (build.child = "closed" /\ build.closeCode = Ref(0))
  /\ (build.child = "closed" /\ build.closeCode # Ref(0)) =>
       /\ proc.status = "exited"
       /\ proc.code = 1
       /\ build.archives = 0
       /\ build.promise = "pending"
       /\ build.events = <<>>

C8_Witness ==
  /\ build.child = "closed"
  /\ build.closeCode = Ref(0)
  /\ build.childErrors = 1
  /\ build.archives = 1
  /\ build.archive.sourceDir = "/tmp/build/bundle"

\* C9: whichever of the encoder's error event and the destination's close
\* event come, and in whichever order, buildApp's callback runs exactly once
\* and the first event decides the promise: rejected with the encoder's
\* error when the error came first, resolved when the close came first.
C9_ArchiveCompletesOnce ==
  /\ build.cbCalls <= 1
  /\ (build.events # <<>> /\ build.events[1] \in {"error", "close"}) =>
       /\ build.cbCalls = 1
       /\ build.events[1] = "error" =>
            (build.promise = "rejected" /\ build.reason = Ref(ArchiveError))
       /\ build.events[1] = "close" => build.promise = "resolved"

C9_Witness ==
  /\ build.events = <<"error", "close">>
  /\ build.promise = "rejected"
  /\ build.cbCalls = 1

\* C10 as stated: every encoder error, in any order relative to the close
\* event, and every failure of the destination stream ends in the promise
\* rejected, exactly once.
C10_AsStated ==
  (\E k \in 1..Len(build.events) : build.events[k] \in {"error", "outputError"}) =>
    /\ build.promise = "rejected"
    /\ build.cbCalls = 1

\* what spawn was given, once the subprocess has been spawned
Spawned == build.spawned # Null
SpawnedArgs == build.spawned[1].args
FlagAt == {k \in 1..Len(SpawnedArgs) : SpawnedArgs[k] = "--mobile-settings"}

\* C11 as stated: whenever serverOnly is true, whatever the other options,
\* the argument list given to spawn does not contain --mobile-settings.
C11_AsStated ==
  (Spawned /\ build.options.serverOnly) => FlagAt = {}

\* the text JSON.stringify gives for each mobileSettings object considered
JsonText(ms) ==
  CASE ms = <<>> -> "{}"
    [] ms = <<[key |-> "public", val |-> "x"]>> -> "{\"public\":\"x\"}"
    [] OTHER -> "{\"id\":\"a1\",\"public\":\"x\"}"

\* C12: the argument list given to spawn contains --mobile-settings at most
\* once; when mobileSettings is supplied the flag is there and the argument
\* after it is the JSON text of that object; when neither serverOnly nor
\* mobileSettings is supplied the flag is there and the argument after it is
\* <appPath>/settings.json.
C12_MobileSettingsValue ==
  Spawned =>
    /\ Cardinality(FlagAt) <= 1
    /\ build.options.mobileSettings # Null =>
         /\ FlagAt # {}
         /\ \A k \in FlagAt :
              /\ k < Len(SpawnedArgs)
              /\ SpawnedArgs[k + 1] = JsonText(build.options.mobileSettings[1])
    /\ (~build.options.serverOnly /\ build.options.mobileSettings = Null) =>
         /\ FlagAt # {}
         /\ \A k \in FlagAt :
              /\ k < Len(SpawnedArgs)
              /\ SpawnedArgs[k + 1] = "/home/user/app/settings.json"

C12_Witness ==
  /\ Spawned
  /\ build.options.mobileSettings # Null
  /\ Len(build.options.mobileSettings[1]) = 2
  /\ ~build.options.serverOnly
  /\ build.options.debug
  /\ SpawnedArgs[7] = "--mobile-settings"
  /\ SpawnedArgs[8] = "{\"id\":\"a1\",\"public\":\"x\"}"

\* the program that is spawned for the same options on a non-Windows host
OriginalExecutable ==
  SpawnCall(AppPath, build.options, build.verbose, "linux", Undefined).executable

\* C13 as stated: on a Windows-like host, whatever the options (a custom
\* executable included), the spawned program is the command shell and its
\* arguments are the run switch, then the executable that a non-Windows host
\* would have spawned, then the unchanged build arguments.
C13_AsStated ==
  (Spawned /\ isWin(build.platform)) =>
    /\ build.spawned[1].executable
         = (IF Truthy(build.comspec) THEN build.comspec ELSE "cmd.exe")
    /\ SpawnedArgs = <<"/c", OriginalExecutable>> \o BuildArgs(AppPath, build.options)

\* C17: the subprocess's 'error' event leaves the promise, the archiver and
\* the process as they were (promise pending, nothing archived, process
\* running); and once the subprocess is spawned, a step that changes the
\* promise or ends the process is the close event or comes after it.
C17_ErrorDoesNotSettle ==
  [][ /\ build'.childErrors # build.childErrors =>
           /\ build'.promise = "pending"
           /\ build'.promise = build.promise
           /\ build'.archives = build.archives
           /\ build'.archives = 0
           /\ build'.child = "running"
           /\ proc' = proc
           /\ proc'.status = "running"
      /\ (build.spawned # Null
           /\ (build'.promise # build.promise \/ proc'.status # proc.status)) =>
           build'.child = "closed"
    ]_vars

C17_Witness ==
  /\ Spawned
  /\ build.childErrors = 1
  /\ build.child = "running"
  /\ build.promise = "pending"
  /\ build.archives = 0
  /\ proc.status = "running"

\* C18: under fair event delivery, once the subprocess has been spawned the
\* build eventually has its promise resolved or rejected, or the process has
\* ended; after a spawn 'error' and after a failure of the archive's
\* destination stream as well.
C18_BuildComesToAnEnd ==
  Spawned ~> (build.promise \in {"resolved", "rejected"} \/ proc.status # "running")

C18_Witness ==
  /\ Spawned
  /\ build.childErrors = 1
  /\ build.closeCode = Ref(-2)
  /\ build.promise = "pending"
  /\ proc.status = "exited"

\* C19 as stated: no call changes any field of the loaded config, the opts
\* of its server entries included, whichever credential an entry resolves to.
C19_AsStated == [][mupjs' = mupjs]_vars

\* the (name, session) pairs of a session map, and the names a module list
\* refers to in the config
Pairs(sessions) == {<<sessions[k].key, sessions[k].val>> : k \in 1..Len(sessions)}
Referenced(M) ==
  {n \in KeySet(Full) : \E i \in 1..Len(M) : n \in Range(ModuleServers(mupjs, M[i]))}

\* C20: the subset a scoped view holds lies within the subset of the handle
\* it was made from and within the names its module list refers to; what
\* getSessions(M2) returns on a view lies within the view's own subset and
\* within the names M2 refers to; and every subset and every result, on any
\* handle, lies within the base resolver's full map.
C20_ScopingOnlyNarrows ==
  Loaded =>
    /\ \A v \in Views :
         /\ Pairs(SessionsOf(v)) \subseteq Pairs(SessionsOf(handles[v].proto))
         /\ KeySet(SessionsOf(v)) \subseteq Referenced(handles[v].modules)
         /\ Pairs(SessionsOf(v)) \subseteq Pairs(Full)
    /\ \A h \in 1..Len(handles), M2 \in env.lists :
         LET list == getSessions(World, h, M2).list IN
           /\ Range(list) \subseteq {p[2] : p \in Pairs(SessionsOf(h))}
           /\ Range(list) \subseteq {Get(Full, n) : n \in Referenced(M2)}
           /\ Range(list) \subseteq {p[2] : p \in Pairs(Full)}

C20_Witness ==
  /\ Loaded
  /\ proc.status = "running"
  /\ KeySet(Full) = {"one", "two"}
  /\ Len(handles) = 3
  /\ handles[2].proto = 1
  /\ handles[2].modules = <<"mongo">>
  /\ KeySet(SessionsOf(2)) = {"two"}
  /\ handles[3].proto = 2
  /\ handles[3].modules = <<"meteor">>
  /\ KeySet(SessionsOf(3)) = {"two"}

\* validation has run and returned; the problems reported at a path; a path
\* that ends in .pub
Validated == io.validations > 0 /\ proc.status # "crashed"
ProblemsAt(path) == {k \in 1..Len(io.problems) : io.problems[k].path = path}
EndsWithPub(s) == Len(s) >= 4 /\ SubSeq(s, Len(s) - 3, Len(s)) = ".pub"

\* C14 as stated: once validation has returned, every entry whose pem is a
\* path ending in .pub has exactly one problem at servers.<name>.pem,
\* whatever its other fields and the other entries are, and an entry whose
\* pem does not end in .pub has no public-key problem there.
C14_AsStated ==
  Validated =>
    \A i \in ServerIdx :
      (InfoAt(i) # Null /\ IsString(Field(InfoAt(i), "pem"))) =>
        LET pem == InfoAt(i).pem
            at == ProblemsAt("servers." \o NameAt(i) \o ".pem")
        IN /\ EndsWithPub(pem) => Cardinality(at) = 1
           /\ ~EndsWithPub(pem) => \A k \in at : io.problems[k].message # PublicKeyMessage

\* a string field of an entry is well-formed: a non-empty string, or (when
\* optional) missing
WellFormed(e, k, required) ==
  IF k \in DOMAIN e THEN IsString(e[k]) /\ e[k] # "" ELSE ~required

\* the servers section has nothing to report
ValidServers ==
  /\ Len(Servers(mupjs)) >= 1
  /\ \A i \in ServerIdx :
       /\ InfoAt(i) # Null
       /\ WellFormed(InfoAt(i), "host", TRUE)
       /\ WellFormed(InfoAt(i), "username", TRUE)
       /\ WellFormed(InfoAt(i), "pem", FALSE)
       /\ WellFormed(InfoAt(i), "password", FALSE)
       /\ "pem" \in DOMAIN InfoAt(i) => ~EndsWithPub(InfoAt(i).pem)

\* C15 as stated: validation of any servers section, one with a null entry
\* or a pem that is no string included, returns (raises no exception), and
\* what it returns is empty exactly when the section is valid.
C15_AsStated ==
  io.validations > 0 =>
    /\ proc.status # "crashed"
    /\ io.problems = <<>> <=> ValidServers

\* C16 as stated: validation runs at most once; whenever the config file has
\* loaded, the config is held and the process is running, or has exited
\* later, in the session loader or the settings loader, however many
\* problems validation reported.
C16_AsStated ==
  /\ io.validations <= 1
  /\ (env.configFile = "ok" /\ io.requires > 0) =>
       /\ Base.props.config # Null
       /\ io.validations = 1
       /\ proc.status \in {"running", "exited"}
       /\ proc.status = "exited" => (io.loads > 0 \/ io.settingsReads > 0)

====
